---- MODULE Spec2Model ----
(***************************************************************************)
(* Amicus Subscription API.  The repository holds two versions of the     *)
(* server script:                                                         *)
(*   src/unnamed/part_000  POST /subscribe validates the body and inserts *)
(*                         into the 'subscriptions' table;                *)
(*   src/index.js          POST /subscribe ignores the body and inserts a *)
(*                         time-stamped row into 'test_entries'.          *)
(* Both share the start-up script and GET /.  The variable `program` says *)
(* which script the process runs.  The Supabase store is an external      *)
(* collaborator: it is modelled as a table with an optional unique        *)
(* constraint, which answers an insert with the inserted rows, an error   *)
(* object, or a rejected promise.  console.log of requests is not state   *)
(* any handler reads and is left out; the start-up console.error is kept. *)
(***************************************************************************)
EXTENDS Integers, Sequences, FiniteSets, TLC

\* Bounds of the model.
MaxRequests == 2

Requests == 1..MaxRequests

\* ------------------------------------------------------------------------
\* JavaScript values.  A string is a sequence of one-character strings, so
\* that the regular expressions can be evaluated character by character.
\* A number or boolean carries its ToString image in s.
\* ------------------------------------------------------------------------
Undefined == [t |-> "undefined", s |-> <<>>]
Null == [t |-> "null", s |-> <<>>]
Str(s) == [t |-> "string", s |-> s]
Num(s) == [t |-> "number", s |-> s]
True == [t |-> "boolean", s |-> <<"t", "r", "u", "e">>]
False == [t |-> "boolean", s |-> <<"f", "a", "l", "s", "e">>]

\* Optional values: <<>> is absent, <<v>> is present.
None == <<>>
Some(v) == <<v>>

\* ToBoolean: undefined, null, "", 0, NaN and false are falsy.
Truthy(v) ==
    CASE v.t = "undefined" -> FALSE
      [] v.t = "null" -> FALSE
      [] v.t = "string" -> v.s # <<>>
      [] v.t = "number" -> v.s \notin {<<"0">>, <<"N", "a", "N">>}
      [] v.t = "boolean" -> v.s = True.s

\* ToString, as RegExp.prototype.test applies it to its argument.
JSToString(v) ==
    CASE v.t = "undefined" -> <<"u", "n", "d", "e", "f", "i", "n", "e", "d">>
      [] v.t = "null" -> <<"n", "u", "l", "l">>
      [] OTHER -> v.s

IsSpace(c) == c \in {" ", "\t", "\n", "\r"}
IsDigit(c) == c \in {"0", "1", "2", "3", "4", "5", "6", "7", "8", "9"}

\* /^[^\s@]+@[^\s@]+\.[^\s@]+$/ : exactly one '@', no white space, at least
\* one character before the '@', and after it a '.' that has at least one
\* character on each side.
EmailRegexTest(v) ==
    LET s == JSToString(v)
    IN \E i, j \in 1..Len(s) :
          /\ s[i] = "@"
          /\ s[j] = "."
          /\ 1 < i
          /\ i + 1 < j
          /\ j < Len(s)
          /\ \A k \in (1..Len(s)) \ {i} : ~IsSpace(s[k]) /\ s[k] # "@"

\* /^\+?[0-9\s-()]+$/ : an optional leading '+', then one or more of digit,
\* white space, '-', '(' and ')'.
PhoneRegexTest(v) ==
    LET s == JSToString(v)
        rest == IF Len(s) > 0 /\ s[1] = "+" THEN Tail(s) ELSE s
    IN /\ Len(rest) > 0
       /\ \A k \in 1..Len(rest) :
             IsDigit(rest[k]) \/ IsSpace(rest[k]) \/ rest[k] \in {"-", "(", ")"}

\* ['email', 'sms', 'both']
AllowedTypes ==
    << Str(<<"e", "m", "a", "i", "l">>), Str(<<"s", "m", "s">>),
       Str(<<"b", "o", "t", "h">>) >>

\* Array.prototype.includes (SameValueZero on the element).
Includes(arr, v) == \E i \in 1..Len(arr) : arr[i] = v

\* ------------------------------------------------------------------------
\* Inputs: environment values, request bodies, clock readings.
\* ------------------------------------------------------------------------
EnvValues == {Undefined, Str(<<>>), Str(<<"s", "e", "t">>)}

GoodEmail == Str(<<"a", "@", "b", ".", "c">>)
OtherEmail == Str(<<"d", "@", "b", ".", "c">>)
GoodPhone == Str(<<"+", "1", " ", "(", "5", ")", "-", "2">>)
OtherPhone == Str(<<"5", "5">>)

\* Values a client can put in the email field.
EmailValues ==
    { Undefined, Null, Str(<<>>), Num(<<"0">>), False,
      GoodEmail, OtherEmail,
      Str(<<"a", ".", "b", "@", "c", ".", "d", ".", "e">>),
      Str(<<"n", "o", "t", "-", "a", "n", "-", "e", "m", "a", "i", "l">>),
      Str(<<"a", "@", "b">>), Str(<<"@", "b", ".", "c">>),
      Str(<<"a", "@", ".", "c">>), Str(<<"a", "@", "b", ".">>),
      Str(<<"a", "@", "@", "b", ".", "c">>), Str(<<"a", " ", "@", "b", ".", "c">>),
      Str(<<"a", "@", "b", ".", "c", "\n">>),
      Num(<<"7">>), True }

\* Values a client can put in the phone_number field.
PhoneValues ==
    { Undefined, Null, Str(<<>>), Num(<<"0">>), False,
      GoodPhone, OtherPhone,
      Str(<<"a", "b", "c">>), Str(<<"+">>), Str(<<"+", "+", "1">>),
      Str(<<"1", "+">>), Str(<<"5", "x">>), Str(<<" ">>), Str(<<"-">>),
      Str(<<"5", ".", "5">>),
      Num(<<"7">>), True }

\* Values a client can put in the subscription_type field.
TypeValues ==
    { Undefined, Null, Str(<<>>),
      AllowedTypes[1], AllowedTypes[2], AllowedTypes[3],
      Str(<<"E", "m", "a", "i", "l">>), Str(<<"a", "l", "l">>),
      Str(<<"s", "m", "s", " ">>), Num(<<"7">>), True }

Body(e, p, t) == [email |-> e, phone_number |-> p, subscription_type |-> t]

\* Every combination of the field values: the bodies of the one-request runs.
AllBodies ==
    { Body(e, p, t) : e \in EmailValues, p \in PhoneValues, t \in TypeValues }

\* The bodies of the runs with several overlapping requests.
FewBodies ==
    { Body(GoodEmail, Undefined, AllowedTypes[1]),
      Body(GoodEmail, GoodPhone, AllowedTypes[3]),
      Body(Str(<<>>), GoodPhone, AllowedTypes[2]),
      Body(OtherEmail, GoodPhone, AllowedTypes[3]),
      Body(Undefined, Str(<<>>), Str(<<"a", "l", "l">>)) }

\* Clock readings new Date() can return.
Times == {0, 1}

\* The bodies sent to the script that does not read them.
TestBodies ==
    { Body(GoodEmail, Undefined, AllowedTypes[1]),
      Body(Undefined, Str(<<>>), Str(<<"a", "l", "l">>)) }

\* ------------------------------------------------------------------------
\* Responses.  res.status(n).json({success, message, details, data}); a key
\* the handler does not write is None.
\* ------------------------------------------------------------------------
Json(status, success, message, details, data) ==
    [status |-> status, success |-> success, message |-> message,
     details |-> details, data |-> data]

RootMessage == "Amicus Subscription API is running!"
MsgIdentifierRequired == "Email or Phone Number is required."
MsgInvalidType ==
    "Invalid or missing subscription_type. Must be \"email\", \"sms\", or \"both\"."
MsgInvalidEmail == "Invalid email format."
MsgInvalidPhone == "Invalid phone number format."
MsgAlreadySubscribed == "This email or phone number is already subscribed."
MsgDatabaseError == "Failed to subscribe due to a database error."
MsgSubscribed == "Subscription successful!"
MsgUnexpected == "An unexpected server error occurred."
MsgTestExists == "This entry already exists (unique constraint violation)."
MsgTestDatabaseError == "Failed to insert data due to a database error."
MsgTestSuccess == "Test entry successful!"
MsgTestUnexpected == "An unexpected server error occurred during test insertion."
MsgConfigMissing ==
    "Error: SUPABASE_URL or SUPABASE_ANON_KEY not provided."

\* PostgreSQL unique violation error code.
UniqueViolation == "23505"

\* ------------------------------------------------------------------------
\* State.
\* ------------------------------------------------------------------------
VARIABLES
    program,        \* which script runs: "part_000" or "index.js"
    env,            \* process.env: [SUPABASE_URL, SUPABASE_ANON_KEY]
    pc,             \* position of the start-up script
    stderr,         \* console.error output of the start-up script
    exitCode,       \* None while the process lives, Some(1) after process.exit(1)
    supabase,       \* the store client: None until createClient has run
    reqs,           \* per POST /subscribe request: position, body, insert, result, responses
    insertCalls,    \* per request: how many inserts its handler has issued
    rootResponse,   \* the response GET / sent last, None before the first
    uniqueCols,     \* the columns of the table that carry a unique constraint
    rows            \* the table of the store: rows in insertion order

vars ==
    << program, env, pc, stderr, exitCode, supabase, reqs, insertCalls,
       rootResponse, uniqueCols, rows >>

Programs == {"part_000", "index.js"}

\* The table each script inserts into.
TableOf(prog) == IF prog = "part_000" THEN "subscriptions" ELSE "test_entries"

\* The columns on which the deployment may declare a unique constraint.
UniqueColumns(prog) ==
    IF prog = "part_000" THEN {"email", "phone_number"} ELSE {"data_value"}

IdleRequest ==
    [pc |-> "idle", body |-> None, insert |-> None, result |-> None,
     responses |-> <<>>, after |-> {}]

\* A row that an earlier run left in the subscriptions table.
EarlierRow ==
    [by |-> 0,
     rec |-> [k \in {"subscription_type", "email", "is_active"} |->
                CASE k = "subscription_type" -> AllowedTypes[1]
                  [] k = "email" -> GoodEmail
                  [] k = "is_active" -> True]]

InitialTables(prog) == IF prog = "part_000" THEN {<<>>, <<EarlierRow>>} ELSE {<<>>}

InitOf(progs) ==
    /\ program \in progs
    /\ env \in [SUPABASE_URL : EnvValues, SUPABASE_ANON_KEY : EnvValues]
    /\ pc = "start"
    /\ stderr = <<>>
    /\ exitCode = None
    /\ supabase = None
    /\ reqs = [r \in Requests |-> IdleRequest]
    /\ insertCalls = [r \in Requests |-> 0]
    /\ rootResponse = None
    /\ uniqueCols \in {{}, UniqueColumns(program)}
    /\ rows \in InitialTables(program)

Init == InitOf(Programs)

\* ------------------------------------------------------------------------
\* Start-up script (the same in both files).
\* ------------------------------------------------------------------------
\* Mutant: the check written with && (exits only when both are missing).
ConfigMissingBoth(e) == ~Truthy(e.SUPABASE_URL) /\ ~Truthy(e.SUPABASE_ANON_KEY)

\* !supabaseUrl || !supabaseKey
ConfigMissing(e) == ~Truthy(e.SUPABASE_URL) \/ ~Truthy(e.SUPABASE_ANON_KEY)

\* if (!supabaseUrl || !supabaseKey) { console.error(...); process.exit(1); }
CheckConfig ==
    /\ pc = "start"
    /\ IF ConfigMissing(env)
         THEN /\ stderr' = Append(stderr, MsgConfigMissing)
              /\ exitCode' = Some(1)
              /\ pc' = "exited"
         ELSE /\ pc' = "checked"
              /\ UNCHANGED <<stderr, exitCode>>
    /\ UNCHANGED <<program, env, supabase, reqs, insertCalls, rootResponse,
                   uniqueCols, rows>>

\* const supabase = createClient(supabaseUrl, supabaseKey);
CreateClient ==
    /\ pc = "checked"
    /\ supabase' = Some([url |-> env.SUPABASE_URL, key |-> env.SUPABASE_ANON_KEY])
    /\ pc' = "created"
    /\ UNCHANGED <<program, env, stderr, exitCode, reqs, insertCalls,
                   rootResponse, uniqueCols, rows>>

\* app.listen(port, ...)
Listen ==
    /\ pc = "created"
    /\ pc' = "listening"
    /\ UNCHANGED <<program, env, stderr, exitCode, supabase, reqs, insertCalls,
                   rootResponse, uniqueCols, rows>>

\* ------------------------------------------------------------------------
\* GET /
\* ------------------------------------------------------------------------
RootResponse == Json(200, None, RootMessage, None, None)

\* Mutant: a health check that reports 503 while an insert is pending.
GetRootProbing ==
    /\ pc = "listening"
    /\ rootResponse' =
          Some(Json(IF \E r \in Requests : reqs[r].pc = "awaiting" THEN 503 ELSE 200,
                    None, RootMessage, None, None))
    /\ UNCHANGED <<program, env, pc, stderr, exitCode, supabase, reqs,
                   insertCalls, uniqueCols, rows>>

GetRoot ==
    /\ pc = "listening"
    /\ rootResponse' = Some(RootResponse)
    /\ UNCHANGED <<program, env, pc, stderr, exitCode, supabase, reqs,
                   insertCalls, uniqueCols, rows>>

\* ------------------------------------------------------------------------
\* The store (external): one insert into a table, answered with the
\* inserted rows, with an error object, or with a rejected promise.
\* ------------------------------------------------------------------------
\* The row conflicts with a stored row on a column under the unique
\* constraint; a column the row omits is NULL and never conflicts.
Conflicts(rec, table, ucols) ==
    \E i \in 1..Len(table) : \E c \in ucols :
        /\ c \in DOMAIN rec
        /\ c \in DOMAIN table[i].rec
        /\ rec[c] = table[i].rec[c]

DataResult(data) == [kind |-> "data", code |-> "", message |-> "", data |-> data]
ErrorResult(code, message) ==
    [kind |-> "error", code |-> code, message |-> message, data |-> <<>>]
ThrowResult(message) ==
    [kind |-> "throw", code |-> "", message |-> message, data |-> <<>>]

\* Error objects the store can answer with, other than the unique violation.
OtherStoreErrors ==
    { ErrorResult("42501", "permission denied for table"),
      ErrorResult("", "FetchError: request failed") }

\* The store executes the insert: atomically it checks the unique constraint
\* and either appends the row and returns it (.select()) or answers 23505.
StoreExecute(r) ==
    /\ reqs[r].pc = "awaiting"
    /\ LET rec == reqs[r].insert[1].rec
       IN IF Conflicts(rec, rows, uniqueCols)
            THEN /\ rows' = rows
                 /\ reqs' = [reqs EXCEPT ![r].pc = "replied",
                               ![r].result = Some(ErrorResult(UniqueViolation,
                                   "duplicate key value violates unique constraint"))]
            ELSE /\ rows' = Append(rows, [by |-> r, rec |-> rec])
                 /\ reqs' = [reqs EXCEPT ![r].pc = "replied",
                               ![r].result = Some(DataResult(<<rec>>))]
    /\ UNCHANGED <<program, env, pc, stderr, exitCode, supabase, insertCalls,
                   rootResponse, uniqueCols>>

\* The store answers with another error and stores nothing.
StoreFail(r) ==
    /\ reqs[r].pc = "awaiting"
    /\ \E e \in OtherStoreErrors :
          reqs' = [reqs EXCEPT ![r].pc = "replied", ![r].result = Some(e)]
    /\ UNCHANGED <<program, env, pc, stderr, exitCode, supabase, insertCalls,
                   rootResponse, uniqueCols, rows>>

\* The awaited call rejects (the store is unreachable).
StoreReject(r) ==
    /\ reqs[r].pc = "awaiting"
    /\ reqs' = [reqs EXCEPT ![r].pc = "replied",
                  ![r].result = Some(ThrowResult("fetch failed"))]
    /\ UNCHANGED <<program, env, pc, stderr, exitCode, supabase, insertCalls,
                   rootResponse, uniqueCols, rows>>

\* ------------------------------------------------------------------------
\* POST /subscribe of src/unnamed/part_000.
\* ------------------------------------------------------------------------
\* Mutant: the format checks guarded by presence (!== undefined) instead
\* of truthiness.
FailingCheckPresence(body) ==
    LET email == body.email
        phone_number == body.phone_number
        subscription_type == body.subscription_type
    IN IF ~Truthy(email) /\ ~Truthy(phone_number) THEN 1
       ELSE IF ~Truthy(subscription_type) \/ ~Includes(AllowedTypes, subscription_type)
         THEN 2
       ELSE IF email # Undefined /\ ~EmailRegexTest(email) THEN 3
       ELSE IF phone_number # Undefined /\ ~PhoneRegexTest(phone_number) THEN 4
       ELSE 0

\* The number of the first validation check that rejects the body, 0 if none.
FailingCheck(body) ==
    LET email == body.email
        phone_number == body.phone_number
        subscription_type == body.subscription_type
    IN IF ~Truthy(email) /\ ~Truthy(phone_number) THEN 1
       ELSE IF ~Truthy(subscription_type) \/ ~Includes(AllowedTypes, subscription_type)
         THEN 2
       ELSE IF Truthy(email) /\ ~EmailRegexTest(email) THEN 3
       ELSE IF Truthy(phone_number) /\ ~PhoneRegexTest(phone_number) THEN 4
       ELSE 0

ValidationMessage(k) ==
    CASE k = 1 -> MsgIdentifierRequired
      [] k = 2 -> MsgInvalidType
      [] k = 3 -> MsgInvalidEmail
      [] k = 4 -> MsgInvalidPhone

\* return res.status(400).json({ success: false, message })
ValidationResponse(k) == Json(400, Some(FALSE), ValidationMessage(k), None, None)

\* Mutant: the identifiers are left out of the record.
InsertDataWithoutIdentifiers(body) ==
    [k \in {"subscription_type", "is_active"} |->
        IF k = "subscription_type" THEN body.subscription_type ELSE True]

\* const insertData = { subscription_type }; if (email) ...; if (phone_number) ...;
\* insertData.is_active = true;
InsertData(body) ==
    LET keys == {"subscription_type", "is_active"}
                \cup (IF Truthy(body.email) THEN {"email"} ELSE {})
                \cup (IF Truthy(body.phone_number) THEN {"phone_number"} ELSE {})
    IN [k \in keys |->
          CASE k = "subscription_type" -> body.subscription_type
            [] k = "email" -> body.email
            [] k = "phone_number" -> body.phone_number
            [] k = "is_active" -> True]

\* Mutant: the unique violation compared with the wrong code ('23503').
SubscribeResponsesWrongCode(result) ==
    IF result.kind = "throw"
      THEN << Json(500, Some(FALSE), MsgUnexpected, Some(result.message), None) >>
    ELSE IF result.kind = "error"
      THEN IF result.code = "23503"
             THEN << Json(409, Some(FALSE), MsgAlreadySubscribed, None, None) >>
             ELSE << Json(500, Some(FALSE), MsgDatabaseError, Some(result.message), None) >>
    ELSE << Json(200, Some(TRUE), MsgSubscribed, None, Some(result.data)) >>

\* Mutant: a duplicate is answered as a success (an upsert-like handler).
SubscribeResponsesDuplicateOk(result) ==
    IF result.kind = "throw"
      THEN << Json(500, Some(FALSE), MsgUnexpected, Some(result.message), None) >>
    ELSE IF result.kind = "error"
      THEN IF result.code = UniqueViolation
             THEN << Json(200, Some(TRUE), MsgSubscribed, None, Some(<<>>)) >>
             ELSE << Json(500, Some(FALSE), MsgDatabaseError, Some(result.message), None) >>
    ELSE << Json(200, Some(TRUE), MsgSubscribed, None, Some(result.data)) >>

\* Mutant: the return is missing on the database-error path, so the success
\* response is sent as well.
SubscribeResponsesNoReturn(result) ==
    IF result.kind = "throw"
      THEN << Json(500, Some(FALSE), MsgUnexpected, Some(result.message), None) >>
    ELSE IF result.kind = "error"
      THEN IF result.code = UniqueViolation
             THEN << Json(409, Some(FALSE), MsgAlreadySubscribed, None, None) >>
             ELSE << Json(500, Some(FALSE), MsgDatabaseError, Some(result.message), None),
                     Json(200, Some(TRUE), MsgSubscribed, None, Some(result.data)) >>
    ELSE << Json(200, Some(TRUE), MsgSubscribed, None, Some(result.data)) >>

\* The responses the handler sends once the awaited insert has settled.
SubscribeResponses(result) ==
    IF result.kind = "throw"
      THEN << Json(500, Some(FALSE), MsgUnexpected, Some(result.message), None) >>
    ELSE IF result.kind = "error"
      THEN IF result.code = UniqueViolation
             THEN << Json(409, Some(FALSE), MsgAlreadySubscribed, None, None) >>
             ELSE << Json(500, Some(FALSE), MsgDatabaseError, Some(result.message), None) >>
    ELSE << Json(200, Some(TRUE), MsgSubscribed, None, Some(result.data)) >>

\* The request arrives: requests are numbered in order of arrival.
Arrives(r) ==
    /\ pc = "listening"
    /\ reqs[r].pc = "idle"
    /\ \A q \in Requests : q < r => reqs[q].pc # "idle"

DoneAt(r) == {q \in Requests : reqs[q].pc = "done"}

\* The handler up to its await: validation, then the insert is issued.
PostSubscribe(r, body) ==
    /\ program = "part_000"
    /\ Arrives(r)
    /\ LET k == FailingCheck(body)
       IN IF k # 0
            THEN /\ reqs' = [reqs EXCEPT ![r] =
                       [pc |-> "done", body |-> Some(body), insert |-> None,
                        result |-> None, responses |-> <<ValidationResponse(k)>>,
                        after |-> DoneAt(r)]]
                 /\ UNCHANGED insertCalls
            ELSE /\ reqs' = [reqs EXCEPT ![r] =
                       [pc |-> "awaiting", body |-> Some(body),
                        insert |-> Some([table |-> "subscriptions",
                                         rec |-> InsertData(body)]),
                        result |-> None, responses |-> <<>>, after |-> DoneAt(r)]]
                 /\ insertCalls' = [insertCalls EXCEPT ![r] = @ + 1]
    /\ UNCHANGED <<program, env, pc, stderr, exitCode, supabase, rootResponse,
                   uniqueCols, rows>>

\* The handler after its await.
PostSubscribeResume(r) ==
    /\ program = "part_000"
    /\ reqs[r].pc = "replied"
    /\ reqs' = [reqs EXCEPT ![r].pc = "done",
                  ![r].responses = @ \o SubscribeResponses(reqs[r].result[1])]
    /\ UNCHANGED <<program, env, pc, stderr, exitCode, supabase, insertCalls,
                   rootResponse, uniqueCols, rows>>

\* ------------------------------------------------------------------------
\* POST /subscribe of src/index.js (inserts into test_entries).
\* ------------------------------------------------------------------------
Digits == <<"0", "1", "2", "3", "4", "5", "6", "7", "8", "9">>

\* new Date().toISOString(), for a clock reading in Times.
ToISOString(now) == <<"T", Digits[now + 1], "Z">>

\* { data_value: `Test entry from API at ${new Date().toISOString()}` }
TestInsertData(now) ==
    [k \in {"data_value"} |->
        Str(<<"T", "e", "s", "t", " ", "a", "t", " ">> \o ToISOString(now))]

TestResponses(result) ==
    IF result.kind = "throw"
      THEN << Json(500, Some(FALSE), MsgTestUnexpected, None, None) >>
    ELSE IF result.kind = "error"
      THEN IF result.code = UniqueViolation
             THEN << Json(409, Some(FALSE), MsgTestExists, None, None) >>
             ELSE << Json(500, Some(FALSE), MsgTestDatabaseError,
                          Some(result.message), None) >>
    ELSE << Json(200, Some(TRUE), MsgTestSuccess, None, Some(result.data)) >>

\* The handler up to its await: the body is logged and not read again.
TestSubscribe(r, body, now) ==
    /\ program = "index.js"
    /\ Arrives(r)
    /\ reqs' = [reqs EXCEPT ![r] =
          [pc |-> "awaiting", body |-> Some(body),
           insert |-> Some([table |-> "test_entries", rec |-> TestInsertData(now)]),
           result |-> None, responses |-> <<>>, after |-> DoneAt(r)]]
    /\ insertCalls' = [insertCalls EXCEPT ![r] = @ + 1]
    /\ UNCHANGED <<program, env, pc, stderr, exitCode, supabase, rootResponse,
                   uniqueCols, rows>>

TestSubscribeResume(r) ==
    /\ program = "index.js"
    /\ reqs[r].pc = "replied"
    /\ reqs' = [reqs EXCEPT ![r].pc = "done",
                  ![r].responses = @ \o TestResponses(reqs[r].result[1])]
    /\ UNCHANGED <<program, env, pc, stderr, exitCode, supabase, insertCalls,
                   rootResponse, uniqueCols, rows>>

\* ------------------------------------------------------------------------
\* Specifications.
\* ------------------------------------------------------------------------
\* Either script, overlapping requests.
Next ==
    \/ CheckConfig
    \/ CreateClient
    \/ Listen
    \/ GetRoot
    \/ \E r \in Requests : \E body \in FewBodies : PostSubscribe(r, body)
    \/ \E r \in Requests : PostSubscribeResume(r)
    \/ \E r \in Requests : \E body \in TestBodies : \E now \in Times :
          TestSubscribe(r, body, now)
    \/ \E r \in Requests : TestSubscribeResume(r)
    \/ \E r \in Requests : StoreExecute(r)
    \/ \E r \in Requests : StoreFail(r)
    \/ \E r \in Requests : StoreReject(r)

Spec == Init /\ [][Next]_vars

\* src/unnamed/part_000 alone, overlapping requests.
NextSubscriptions ==
    \/ CheckConfig
    \/ CreateClient
    \/ Listen
    \/ GetRoot
    \/ \E r \in Requests : \E body \in FewBodies : PostSubscribe(r, body)
    \/ \E r \in Requests : PostSubscribeResume(r)
    \/ \E r \in Requests : StoreExecute(r)
    \/ \E r \in Requests : StoreFail(r)
    \/ \E r \in Requests : StoreReject(r)

SpecSubscriptions == InitOf({"part_000"}) /\ [][NextSubscriptions]_vars

\* src/unnamed/part_000 alone, one request with any of the bodies.
NextOneRequest ==
    \/ CheckConfig
    \/ CreateClient
    \/ Listen
    \/ \E body \in AllBodies : PostSubscribe(1, body)
    \/ PostSubscribeResume(1)
    \/ StoreExecute(1)
    \/ StoreFail(1)
    \/ StoreReject(1)

SpecOneRequest == InitOf({"part_000"}) /\ [][NextOneRequest]_vars

\* ------------------------------------------------------------------------
\* Vocabulary of the claims.
\* ------------------------------------------------------------------------
Arrived(r) == reqs[r].pc # "idle"
Done(r) == reqs[r].pc = "done"
BodyOf(r) == reqs[r].body[1]
ResponseOf(r) == reqs[r].responses[1]
Issued(r) == reqs[r].insert # None
RecordOf(r) == reqs[r].insert[1].rec
ResultOf(r) == reqs[r].result[1]

\* A field the client left out or sent as a falsy value.
IsFalsy(v) ==
    v \in {Undefined, Null, Str(<<>>), Num(<<"0">>), Num(<<"N", "a", "N">>), False}
Supplied(v) == ~IsFalsy(v)

\* The four validation checks of the specification, by number.
ChecksFailed(b) ==
    {k \in 1..4 :
        \/ k = 1 /\ ~Supplied(b.email) /\ ~Supplied(b.phone_number)
        \/ k = 2 /\ b.subscription_type \notin
                       {AllowedTypes[i] : i \in 1..Len(AllowedTypes)}
        \/ k = 3 /\ Supplied(b.email) /\ ~EmailRegexTest(b.email)
        \/ k = 4 /\ Supplied(b.phone_number) /\ ~PhoneRegexTest(b.phone_number)}
PassesValidation(b) == ChecksFailed(b) = {}
LowestFailed(b) == CHOOSE k \in ChecksFailed(b) : \A j \in ChecksFailed(b) : k <= j

RowsBy(S) == {i \in 1..Len(rows) : rows[i].by \in S}
StoreAnswered(r) ==
    /\ reqs[r].result # None
    /\ \/ ResultOf(r).kind = "data"
       \/ ResultOf(r).kind = "error" /\ ResultOf(r).code = UniqueViolation

\* ------------------------------------------------------------------------
\* C1.  A request that passes the four validation checks issues exactly one
\* insert; a request that fails any check issues none and is answered 400
\* with success:false.
\* ------------------------------------------------------------------------
C1_InsertIffValid ==
    \A r \in Requests : Arrived(r) =>
        IF PassesValidation(BodyOf(r))
          THEN insertCalls[r] = 1
          ELSE /\ insertCalls[r] = 0
               /\ Done(r)
               /\ Len(reqs[r].responses) = 1
               /\ ResponseOf(r).status = 400
               /\ ResponseOf(r).success = Some(FALSE)

\* ------------------------------------------------------------------------
\* C2.  A request that fails validation is answered 400 with the message of
\* the lowest-numbered check it fails.
\* ------------------------------------------------------------------------
C2_FirstFailingCheckWins ==
    \A r \in Requests : (Done(r) /\ ~PassesValidation(BodyOf(r))) =>
        /\ ResponseOf(r).status = 400
        /\ ResponseOf(r).message =
             (CASE LowestFailed(BodyOf(r)) = 1 -> MsgIdentifierRequired
                [] LowestFailed(BodyOf(r)) = 2 -> MsgInvalidType
                [] LowestFailed(BodyOf(r)) = 3 -> MsgInvalidEmail
                [] LowestFailed(BodyOf(r)) = 4 -> MsgInvalidPhone)

\* ------------------------------------------------------------------------
\* C3.  Once the insert is submitted the response is a function of the
\* store's outcome: unique violation -> 409; other store error -> 500 with
\* details = the store's message; success -> 200 with the inserted rows in
\* data; rejected call -> 500 with the unexpected-error message.
\* ------------------------------------------------------------------------
C3_ResultMapping ==
    \A r \in Requests : (Done(r) /\ Issued(r)) =>
        /\ Len(reqs[r].responses) = 1
        /\ reqs[r].result # None
        /\ LET res == ResultOf(r)
               resp == ResponseOf(r)
           IN /\ resp.status \in {200, 409, 500}
              /\ (res.kind = "error" /\ res.code = UniqueViolation) =>
                    /\ resp.status = 409
                    /\ resp.success = Some(FALSE)
                    /\ resp.message \in {MsgAlreadySubscribed, MsgTestExists}
              /\ (res.kind = "error" /\ res.code # UniqueViolation) =>
                    /\ resp.status = 500
                    /\ resp.success = Some(FALSE)
                    /\ resp.details = Some(res.message)
              /\ res.kind = "data" =>
                    /\ resp.status = 200
                    /\ resp.success = Some(TRUE)
                    /\ resp.data = Some(<<RecordOf(r)>>)
              /\ res.kind = "throw" =>
                    /\ resp.status = 500
                    /\ resp.success = Some(FALSE)
                    /\ resp.message \in {MsgUnexpected, MsgTestUnexpected}
        /\ \A q \in Requests :
              (Done(q) /\ Issued(q) /\ reqs[q].result = reqs[r].result) =>
                  reqs[q].responses = reqs[r].responses

C3_Witness ==
    \E r, q \in Requests :
        /\ Done(r) /\ Issued(r) /\ ResultOf(r).kind = "error"
        /\ ResultOf(r).code = UniqueViolation
        /\ Done(q) /\ Issued(q) /\ ResultOf(q).kind = "error"
        /\ ResultOf(q).code # UniqueViolation

\* ------------------------------------------------------------------------
\* C4.  The record submitted to the store holds subscription_type as sent,
\* is_active = true, email exactly when supplied, phone_number exactly when
\* supplied, and nothing else.
\* ------------------------------------------------------------------------
C4_RecordContent ==
    \A r \in Requests : Issued(r) =>
        LET b == BodyOf(r)
            rec == RecordOf(r)
        IN /\ DOMAIN rec =
                {"subscription_type", "is_active"}
                \cup (IF Supplied(b.email) THEN {"email"} ELSE {})
                \cup (IF Supplied(b.phone_number) THEN {"phone_number"} ELSE {})
           /\ rec["subscription_type"] = b.subscription_type
           /\ rec["is_active"] = True
           /\ Supplied(b.email) => rec["email"] = b.email
           /\ Supplied(b.phone_number) => rec["phone_number"] = b.phone_number

\* ------------------------------------------------------------------------
\* C5.  The handler keeps no memory: the same valid request sent twice, the
\* second after the first was answered, issues two inserts; without a unique
\* constraint both are answered 200 and two rows are stored; with the
\* constraint, when the first is answered 200 the second is answered 409 and
\* one row is stored.  (The store answers both inserts.)
\* ------------------------------------------------------------------------
SameRequestTwice(r1, r2) ==
    /\ r1 # r2
    /\ Done(r1) /\ Done(r2)
    /\ r1 \in reqs[r2].after
    /\ BodyOf(r1) = BodyOf(r2)
    /\ PassesValidation(BodyOf(r1))
    /\ StoreAnswered(r1) /\ StoreAnswered(r2)

C5_NotIdempotent ==
    \A r1, r2 \in Requests : SameRequestTwice(r1, r2) =>
        /\ insertCalls[r1] = 1 /\ insertCalls[r2] = 1
        /\ uniqueCols = {} =>
              /\ ResponseOf(r1).status = 200 /\ ResponseOf(r2).status = 200
              /\ Cardinality(RowsBy({r1})) = 1 /\ Cardinality(RowsBy({r2})) = 1
        /\ (uniqueCols # {} /\ ResponseOf(r1).status = 200) =>
              /\ ResponseOf(r2).status = 409
              /\ Cardinality(RowsBy({r1, r2})) = 1

C5_Witness ==
    \E r1, r2 \in Requests :
        /\ SameRequestTwice(r1, r2)
        /\ uniqueCols # {}
        /\ ResponseOf(r1).status = 200
        /\ ResponseOf(r2).status = 409

\* ------------------------------------------------------------------------
\* C6.  Requests that all carry the same email (or all the same
\* phone_number), run in any interleaving against a store that enforces the
\* unique constraint and answers every insert, where no earlier row holds
\* one of their identifiers: when all are answered, exactly one got 200, all
\* the others 409, and exactly one row holds that identifier.
\* ------------------------------------------------------------------------
ArrivedSet == {r \in Requests : Arrived(r)}

AllCarry(c, v) ==
    /\ Supplied(v)
    /\ \A r \in ArrivedSet : BodyOf(r)[c] = v

NoEarlierConflict ==
    \A r \in ArrivedSet : \A i \in RowsBy({0}) :
        ~Conflicts(RecordOf(r), <<rows[i]>>, UniqueColumns("part_000"))

SameIdentifierRun(c, v) ==
    /\ uniqueCols = UniqueColumns("part_000")
    /\ ArrivedSet # {}
    /\ \A r \in ArrivedSet :
          Done(r) /\ PassesValidation(BodyOf(r)) /\ StoreAnswered(r)
    /\ AllCarry(c, v)
    /\ NoEarlierConflict

Unset(v) == v \in {Undefined, Str(<<>>)}

C7_MissingConfigIsFatal ==
    (Unset(env.SUPABASE_URL) \/ Unset(env.SUPABASE_ANON_KEY)) =>
        /\ pc \in {"start", "exited"}
        /\ pc = "exited" => (stderr = <<MsgConfigMissing>> /\ exitCode = Some(1))
        /\ supabase = None
        /\ \A r \in Requests : ~Arrived(r) /\ insertCalls[r] = 0
        /\ rootResponse = None
        /\ RowsBy(Requests) = {}

C7_Witness ==
    /\ pc = "exited"
    /\ ~Unset(env.SUPABASE_URL)
    /\ env.SUPABASE_ANON_KEY = Str(<<>>)

\* ------------------------------------------------------------------------
\* C8.  GET / always answers 200 with the one fixed message, and answering
\* it changes nothing of the store or of any subscribe request.
\* ------------------------------------------------------------------------
C8_RootIsFixedAndPure ==
    [][rootResponse' # rootResponse =>
          /\ rootResponse' = Some(Json(200, None, RootMessage, None, None))
          /\ UNCHANGED <<reqs, insertCalls, rows, uniqueCols, supabase, pc,
                         exitCode, stderr>>]_vars

\* GET / answered while one insert is pending and another request is answered.
C8_Witness ==
    /\ rootResponse # None
    /\ \E r, q \in Requests : reqs[r].pc = "awaiting" /\ Done(q)

\* ------------------------------------------------------------------------
\* C10.  A falsy email or phone_number is treated as absent: it counts as
\* missing for the identifier check, never yields an invalid-format
\* rejection, and is left out of the record; with the other identifier and
\* the type valid, the request is accepted.
\* ------------------------------------------------------------------------
C10_FalsyIsAbsent ==
    \A r \in Requests : Arrived(r) =>
        LET b == BodyOf(r)
        IN /\ (IsFalsy(b.email) /\ IsFalsy(b.phone_number)) =>
                 (Done(r) /\ ~Issued(r) /\ ResponseOf(r).message = MsgIdentifierRequired)
           /\ (IsFalsy(b.email) /\ Done(r)) => ResponseOf(r).message # MsgInvalidEmail
           /\ (IsFalsy(b.phone_number) /\ Done(r)) => ResponseOf(r).message # MsgInvalidPhone
           /\ (IsFalsy(b.email) /\ Issued(r)) => "email" \notin DOMAIN RecordOf(r)
           /\ (IsFalsy(b.phone_number) /\ Issued(r)) =>
                 "phone_number" \notin DOMAIN RecordOf(r)
           /\ ( /\ IsFalsy(b.email) /\ Supplied(b.phone_number)
                /\ PhoneRegexTest(b.phone_number)
                /\ Includes(AllowedTypes, b.subscription_type) ) =>
                 (Issued(r) /\ DOMAIN RecordOf(r) =
                                 {"subscription_type", "phone_number", "is_active"})
           /\ ( /\ IsFalsy(b.phone_number) /\ Supplied(b.email)
                /\ EmailRegexTest(b.email)
                /\ Includes(AllowedTypes, b.subscription_type) ) =>
                 (Issued(r) /\ DOMAIN RecordOf(r) =
                                 {"subscription_type", "email", "is_active"})

\* {email: "", phone_number: valid, subscription_type: valid} was inserted.
C10_Witness ==
    /\ Done(1)
    /\ BodyOf(1).email = Str(<<>>)
    /\ BodyOf(1).phone_number = GoodPhone
    /\ ResponseOf(1).status = 200
    /\ DOMAIN RecordOf(1) = {"subscription_type", "phone_number", "is_active"}

\* ------------------------------------------------------------------------
\* C9.  Every subscribe request gets exactly one response: none while its
\* handler runs, exactly one once it has finished, and a handler that has
\* not finished can always take its next step (the store call settles, the
\* await resumes); no handler issues a second insert.
\* ------------------------------------------------------------------------
C9_ExactlyOneResponse ==
    \A r \in Requests :
        /\ Len(reqs[r].responses) = (IF Done(r) THEN 1 ELSE 0)
        /\ insertCalls[r] = (IF Issued(r) THEN 1 ELSE 0)
        /\ reqs[r].pc = "awaiting" =>
              ENABLED (StoreExecute(r) \/ StoreFail(r) \/ StoreReject(r))
        /\ reqs[r].pc = "replied" =>
              ENABLED (PostSubscribeResume(r) \/ TestSubscribeResume(r))
        /\ reqs[r].pc \in {"idle", "awaiting", "replied", "done"}

\* One request rejected by validation, another answered after a rejected call.
C9_Witness ==
    \E r, q \in Requests :
        /\ Done(r) /\ ~Issued(r) /\ ResponseOf(r).status = 400
        /\ Done(q) /\ Issued(q) /\ ResultOf(q).kind = "throw"
        /\ reqs[q].after = {}

====
